---- MODULE Spec2Model ----
(***************************************************************************)
(* State machine of the AlertConfig form component                         *)
(* (src/src/components/faultmanagement/mainpage/AlertConfig.js).           *)
(*                                                                         *)
(* The component holds six pieces of React state and receives the props    *)
(* selectedDatabase and refreshAlerts.  Two effects issue GET requests     *)
(* when one of their dependencies changes, handleSubmit issues a POST.     *)
(* A request stays in flight until its response is handled, and the        *)
(* responses of the requests in flight are handled in any order.           *)
(***************************************************************************)
EXTENDS Naturals, Sequences, FiniteSets, Bags

VARIABLES
  selectedDatabase,  \* prop selectedDatabase (line 5)
  tables,            \* useState([]) (line 6)
  selectedTable,     \* useState('') (line 7)
  columns,           \* useState([]) (line 8)
  formData,          \* useState({...}) (lines 9-15)
  error,             \* useState('') (line 16)
  success,           \* useState('') (line 17)
  tableReqs,         \* bag of the GET tables_from_db requests in flight
  colReqs,           \* bag of the GET columns_from_db requests in flight
  postReqs,          \* bag of the POST add_alert requests in flight
  refreshCalls,      \* calls of the prop refreshAlerts made by the last handler
  untouched          \* TRUE from a change of selectedDatabase until the next user input

vars == <<selectedDatabase, tables, selectedTable, columns, formData, error,
          success, tableReqs, colReqs, postReqs, refreshCalls, untouched>>

----------------------------------------------------------------------------
(* Bound of the model: the number of requests in flight at a time. *)
MaxInFlight == 2

(* The databases the parent can select besides the empty selection, and    *)
(* the catalogue the backend answers from: d1 holds the tables t1 (one     *)
(* column) and t2 (no column), d2 holds a table t1 with the same column.   *)
Databases == {"d1", "d2"}

TablesOf(d) ==
  CASE d = "d1" -> <<"t1", "t2">>
    [] d = "d2" -> <<"t1">>
    [] OTHER    -> <<>>

ColumnsOf(d, t) ==
  CASE d = "d1" /\ t = "t1" -> <<"c1">>
    [] d = "d2" /\ t = "t1" -> <<"c1">>
    [] OTHER                -> <<>>

(* What the user can type into the text and number inputs. *)
TitleInputs == {"", "High"}
MessageInputs == {"", "Too hot"}
NumberInputs == {"1.50"}

----------------------------------------------------------------------------
(* Helpers *)

Range(s) == {s[i] : i \in 1..Len(s)}

InFlight == BagCardinality(tableReqs) + BagCardinality(colReqs) + BagCardinality(postReqs)

EmptyForm ==
  [alert_title |-> "", alert_message |-> "", field_name |-> "",
   lower_bound |-> "", higher_bound |-> ""]

\* parseFloat on the text of a number input.  A number is written in its
\* shortest decimal form; text that starts with no number gives NaN.
parseFloat(s) ==
  CASE s = "1.50" -> "1.5"
    [] OTHER      -> "NaN"

ErrTables == "Failed to fetch tables"
ErrColumns == "Failed to fetch columns"
ErrAlert == "Failed to add alert"
MsgSuccess == "Alert added successfully"

\* The value a <select> shows: the option equal to the controlled value, or
\* the first option (value "") when no option matches.
SelectValue(value, options) ==
  IF value \in Range(options) THEN value ELSE ""

----------------------------------------------------------------------------
(* The two effects.  Each gives the requests in flight after the effect    *)
(* has run in a render with database d and table t.                        *)

\* The table effect without its guard on selectedDatabase (line 34).
fetchTablesEffect_NoGuard(d, reqs) ==
  reqs (+) SetToBag({[database |-> d]})

fetchTablesEffect(d, reqs) ==
  IF d # "" THEN reqs (+) SetToBag({[database |-> d]}) ELSE reqs

fetchColumnsEffect(d, t, reqs) ==
  IF t # "" THEN reqs (+) SetToBag({[database |-> d, table |-> t]}) ELSE reqs

----------------------------------------------------------------------------
(* The component has mounted: both effects have run once. *)
Init ==
  /\ selectedDatabase \in Databases \cup {""}
  /\ tables = <<>>
  /\ selectedTable = ""
  /\ columns = <<>>
  /\ formData = EmptyForm
  /\ error = ""
  /\ success = ""
  /\ tableReqs = fetchTablesEffect(selectedDatabase, EmptyBag)
  /\ colReqs = fetchColumnsEffect(selectedDatabase, "", EmptyBag)
  /\ postReqs = EmptyBag
  /\ refreshCalls = 0
  /\ untouched = FALSE

----------------------------------------------------------------------------
\* ChangeDatabase with selectedDatabase missing from the dependencies of the
\* column effect (line 59): a change of the database re-runs the table effect
\* alone.
ChangeDatabase_TableDependencyOnly(d) ==
  /\ d # selectedDatabase
  /\ InFlight + (IF d # "" THEN 1 ELSE 0) <= MaxInFlight
  /\ selectedDatabase' = d
  /\ tableReqs' = fetchTablesEffect(d, tableReqs)
  /\ refreshCalls' = 0
  /\ untouched' = TRUE
  /\ UNCHANGED <<tables, selectedTable, columns, formData, error, success, colReqs,
                 postReqs>>

(* The parent renders the component with another selectedDatabase: both    *)
(* effects have selectedDatabase among their dependencies and run.         *)
ChangeDatabase(d) ==
  /\ d # selectedDatabase
  /\ InFlight + (IF d # "" THEN 1 ELSE 0) + (IF selectedTable # "" THEN 1 ELSE 0)
       <= MaxInFlight
  /\ selectedDatabase' = d
  /\ tableReqs' = fetchTablesEffect(d, tableReqs)
  /\ colReqs' = fetchColumnsEffect(d, selectedTable, colReqs)
  /\ refreshCalls' = 0
  /\ untouched' = TRUE
  /\ UNCHANGED <<tables, selectedTable, columns, formData, error, success, postReqs>>

(* The user picks another option of the table <select>. *)
SelectTable(t) ==
  /\ t \in Range(tables) \cup {""}
  /\ t # SelectValue(selectedTable, tables)
  /\ t # "" => InFlight < MaxInFlight
  /\ selectedTable' = t
  /\ colReqs' = fetchColumnsEffect(selectedDatabase, t, colReqs)
  /\ refreshCalls' = 0
  /\ untouched' = FALSE
  /\ UNCHANGED <<selectedDatabase, tables, columns, formData, error, success,
                 tableReqs, postReqs>>

(* The user picks another option of the field <select>, which is rendered  *)
(* only while a table is selected.                                         *)
SelectField(c) ==
  /\ selectedTable # ""
  /\ c \in Range(columns) \cup {""}
  /\ c # SelectValue(formData.field_name, columns)
  /\ formData' = [formData EXCEPT !.field_name = c]
  /\ refreshCalls' = 0
  /\ untouched' = FALSE
  /\ UNCHANGED <<selectedDatabase, tables, selectedTable, columns, error, success,
                 tableReqs, colReqs, postReqs>>

(* The user edits one of the four remaining inputs. *)
EditTitle(v) ==
  /\ v # formData.alert_title
  /\ formData' = [formData EXCEPT !.alert_title = v]
  /\ refreshCalls' = 0
  /\ untouched' = FALSE
  /\ UNCHANGED <<selectedDatabase, tables, selectedTable, columns, error, success,
                 tableReqs, colReqs, postReqs>>

EditMessage(v) ==
  /\ v # formData.alert_message
  /\ formData' = [formData EXCEPT !.alert_message = v]
  /\ refreshCalls' = 0
  /\ untouched' = FALSE
  /\ UNCHANGED <<selectedDatabase, tables, selectedTable, columns, error, success,
                 tableReqs, colReqs, postReqs>>

EditLowerBound(v) ==
  /\ parseFloat(v) # formData.lower_bound
  /\ formData' = [formData EXCEPT !.lower_bound = parseFloat(v)]
  /\ refreshCalls' = 0
  /\ untouched' = FALSE
  /\ UNCHANGED <<selectedDatabase, tables, selectedTable, columns, error, success,
                 tableReqs, colReqs, postReqs>>

EditHigherBound(v) ==
  /\ parseFloat(v) # formData.higher_bound
  /\ formData' = [formData EXCEPT !.higher_bound = parseFloat(v)]
  /\ refreshCalls' = 0
  /\ untouched' = FALSE
  /\ UNCHANGED <<selectedDatabase, tables, selectedTable, columns, error, success,
                 tableReqs, colReqs, postReqs>>

(* The browser submits the form only when every required control has a    *)
(* value.                                                                  *)
FormValid ==
  /\ SelectValue(selectedTable, tables) # ""
  /\ SelectValue(formData.field_name, columns) # ""
  /\ formData.alert_title # ""
  /\ formData.alert_message # ""
  /\ formData.lower_bound \notin {"", "NaN"}
  /\ formData.higher_bound \notin {"", "NaN"}

\* handleSubmit without line 64: the success message of an earlier submit
\* survives the next one.
handleSubmit_KeepsSuccess ==
  /\ FormValid
  /\ InFlight < MaxInFlight
  /\ error' = ""
  /\ postReqs' = postReqs (+) SetToBag({[database |-> selectedDatabase, body |-> formData]})
  /\ refreshCalls' = 0
  /\ untouched' = FALSE
  /\ UNCHANGED <<selectedDatabase, tables, selectedTable, columns, formData,
                 success, tableReqs, colReqs>>

\* handleSubmit with the reset of the draft run before the POST is sent: the
\* request carries the emptied draft.
handleSubmit_PostsResetDraft ==
  /\ FormValid
  /\ InFlight < MaxInFlight
  /\ error' = ""
  /\ success' = ""
  /\ postReqs' = postReqs (+) SetToBag({[database |-> selectedDatabase, body |-> EmptyForm]})
  /\ refreshCalls' = 0
  /\ untouched' = FALSE
  /\ UNCHANGED <<selectedDatabase, tables, selectedTable, columns, formData,
                 tableReqs, colReqs>>

(* handleSubmit up to its await: both messages are cleared and the POST is *)
(* sent with the draft and the database of the current render.             *)
handleSubmit ==
  /\ FormValid
  /\ InFlight < MaxInFlight
  /\ error' = ""
  /\ success' = ""
  /\ postReqs' = postReqs (+) SetToBag({[database |-> selectedDatabase, body |-> formData]})
  /\ refreshCalls' = 0
  /\ untouched' = FALSE
  /\ UNCHANGED <<selectedDatabase, tables, selectedTable, columns, formData,
                 tableReqs, colReqs>>

----------------------------------------------------------------------------
(* Responses.  r is the answered request; any request in flight can be     *)
(* answered next.                                                          *)

\* TablesResolved with a guard against stale responses: the response of a
\* request for another database than the selected one is dropped.
TablesResolved_NewestWins(r) ==
  /\ BagIn(r, tableReqs)
  /\ IF r.database = selectedDatabase
       THEN tables' = TablesOf(r.database) /\ selectedTable' = ""
       ELSE UNCHANGED <<tables, selectedTable>>
  /\ tableReqs' = tableReqs (-) SetToBag({r})
  /\ refreshCalls' = 0
  /\ UNCHANGED <<selectedDatabase, columns, formData, error, success, colReqs,
                 postReqs, untouched>>

\* TablesResolved with a setError('') added to the success path of
\* fetchTables.
TablesResolved_ClearsError(r) ==
  /\ BagIn(r, tableReqs)
  /\ tables' = TablesOf(r.database)
  /\ selectedTable' = ""
  /\ error' = ""
  /\ colReqs' = fetchColumnsEffect(selectedDatabase, selectedTable', colReqs)
  /\ tableReqs' = tableReqs (-) SetToBag({r})
  /\ refreshCalls' = 0
  /\ UNCHANGED <<selectedDatabase, columns, formData, success, postReqs, untouched>>

(* fetchTables, lines 25-27: the response is applied.  Setting            *)
(* selectedTable to '' re-runs the column effect, which then does nothing. *)
TablesResolved(r) ==
  /\ BagIn(r, tableReqs)
  /\ tables' = TablesOf(r.database)
  /\ selectedTable' = ""
  /\ colReqs' = fetchColumnsEffect(selectedDatabase, selectedTable', colReqs)
  /\ tableReqs' = tableReqs (-) SetToBag({r})
  /\ refreshCalls' = 0
  /\ UNCHANGED <<selectedDatabase, columns, formData, error, success, postReqs,
                 untouched>>

\* TablesFailed with the reset of the table selection moved out of the try
\* block, so that it runs on failure too.
TablesFailed_ResetsSelection(r) ==
  /\ BagIn(r, tableReqs)
  /\ error' = ErrTables
  /\ selectedTable' = ""
  /\ tableReqs' = tableReqs (-) SetToBag({r})
  /\ refreshCalls' = 0
  /\ UNCHANGED <<selectedDatabase, tables, columns, formData, success, colReqs,
                 postReqs, untouched>>

(* fetchTables, lines 28-31: the request failed. *)
TablesFailed(r) ==
  /\ BagIn(r, tableReqs)
  /\ error' = ErrTables
  /\ tableReqs' = tableReqs (-) SetToBag({r})
  /\ refreshCalls' = 0
  /\ UNCHANGED <<selectedDatabase, tables, selectedTable, columns, formData,
                 success, colReqs, postReqs, untouched>>

\* ColumnsResolved without line 49: the chosen field survives the
\* replacement of the column list.
ColumnsResolved_KeepsField(r) ==
  /\ BagIn(r, colReqs)
  /\ columns' = ColumnsOf(r.database, r.table)
  /\ colReqs' = colReqs (-) SetToBag({r})
  /\ refreshCalls' = 0
  /\ UNCHANGED <<selectedDatabase, tables, selectedTable, formData, error, success,
                 tableReqs, postReqs, untouched>>

(* fetchColumns, lines 47-49: the response is applied. *)
ColumnsResolved(r) ==
  /\ BagIn(r, colReqs)
  /\ columns' = ColumnsOf(r.database, r.table)
  /\ formData' = [formData EXCEPT !.field_name = ""]
  /\ colReqs' = colReqs (-) SetToBag({r})
  /\ refreshCalls' = 0
  /\ UNCHANGED <<selectedDatabase, tables, selectedTable, error, success,
                 tableReqs, postReqs, untouched>>

\* ColumnsFailed with the message of the table fetch pasted into its catch
\* block.
ColumnsFailed_TablesMessage(r) ==
  /\ BagIn(r, colReqs)
  /\ error' = ErrTables
  /\ colReqs' = colReqs (-) SetToBag({r})
  /\ refreshCalls' = 0
  /\ UNCHANGED <<selectedDatabase, tables, selectedTable, columns, formData,
                 success, tableReqs, postReqs, untouched>>

(* fetchColumns, lines 50-53: the request failed. *)
ColumnsFailed(r) ==
  /\ BagIn(r, colReqs)
  /\ error' = ErrColumns
  /\ colReqs' = colReqs (-) SetToBag({r})
  /\ refreshCalls' = 0
  /\ UNCHANGED <<selectedDatabase, tables, selectedTable, columns, formData,
                 success, tableReqs, postReqs, untouched>>

(* handleSubmit, lines 68-77: the POST succeeded and refreshAlerts returns. *)
PostResolved(r) ==
  /\ BagIn(r, postReqs)
  /\ success' = MsgSuccess
  /\ refreshCalls' = 1
  /\ formData' = EmptyForm
  /\ postReqs' = postReqs (-) SetToBag({r})
  /\ UNCHANGED <<selectedDatabase, tables, selectedTable, columns, error,
                 tableReqs, colReqs, untouched>>

(* handleSubmit, lines 68-69 and 78-81: the POST succeeded and            *)
(* refreshAlerts throws; the catch block takes over before the reset.      *)
PostResolvedRefreshThrows(r) ==
  /\ BagIn(r, postReqs)
  /\ success' = MsgSuccess
  /\ refreshCalls' = 1
  /\ error' = ErrAlert
  /\ postReqs' = postReqs (-) SetToBag({r})
  /\ UNCHANGED <<selectedDatabase, tables, selectedTable, columns, formData,
                 tableReqs, colReqs, untouched>>

\* PostFailed with the reset of the draft moved behind the try block, so that
\* it runs on failure too.
PostFailed_ResetsDraft(r) ==
  /\ BagIn(r, postReqs)
  /\ error' = ErrAlert
  /\ formData' = EmptyForm
  /\ refreshCalls' = 0
  /\ postReqs' = postReqs (-) SetToBag({r})
  /\ UNCHANGED <<selectedDatabase, tables, selectedTable, columns,
                 success, tableReqs, colReqs, untouched>>

(* handleSubmit, lines 78-81: the POST failed. *)
PostFailed(r) ==
  /\ BagIn(r, postReqs)
  /\ error' = ErrAlert
  /\ refreshCalls' = 0
  /\ postReqs' = postReqs (-) SetToBag({r})
  /\ UNCHANGED <<selectedDatabase, tables, selectedTable, columns, formData,
                 success, tableReqs, colReqs, untouched>>

----------------------------------------------------------------------------
Next ==
  \/ \E d \in Databases \cup {""} : ChangeDatabase(d)
  \/ \E t \in Range(tables) \cup {""} : SelectTable(t)
  \/ \E c \in Range(columns) \cup {""} : SelectField(c)
  \/ \E v \in TitleInputs : EditTitle(v)
  \/ \E v \in MessageInputs : EditMessage(v)
  \/ \E v \in NumberInputs : EditLowerBound(v)
  \/ \E v \in NumberInputs : EditHigherBound(v)
  \/ handleSubmit
  \/ \E r \in BagToSet(tableReqs) : TablesResolved(r)
  \/ \E r \in BagToSet(tableReqs) : TablesFailed(r)
  \/ \E r \in BagToSet(colReqs) : ColumnsResolved(r)
  \/ \E r \in BagToSet(colReqs) : ColumnsFailed(r)
  \/ \E r \in BagToSet(postReqs) : PostResolved(r)
  \/ \E r \in BagToSet(postReqs) : PostResolvedRefreshThrows(r)
  \/ \E r \in BagToSet(postReqs) : PostFailed(r)

Spec == Init /\ [][Next]_vars

----------------------------------------------------------------------------
(* Steps, told by what they do to the requests in flight *)

TableFetchSucceeded == \E r \in BagToSet(tableReqs) : TablesResolved(r)
TableFetchFailed == \E r \in BagToSet(tableReqs) : TablesFailed(r)
ColumnFetchSucceeded == \E r \in BagToSet(colReqs) : ColumnsResolved(r)
ColumnFetchFailed == \E r \in BagToSet(colReqs) : ColumnsFailed(r)
PostSucceeded ==
  \E r \in BagToSet(postReqs) : PostResolved(r) \/ PostResolvedRefreshThrows(r)

\* No request was added to the bag b by the step.
NoneIssued(b, bNext) == bNext \sqsubseteq b
\* A request left the bag b in the step.
OneAnswered(b, bNext) == bNext # b /\ bNext \sqsubseteq b

Quiescent == InFlight = 0

----------------------------------------------------------------------------
(* C1: once a table fetch has been answered, successfully or not, the      *)
(* table selection is empty.                                               *)
C1_TableSelectionCleared ==
  [][(TableFetchSucceeded \/ TableFetchFailed) => selectedTable' = ""]_vars

(* C2: when the database has changed to a non-empty one, every request has *)
(* been answered and the user has made no input since the change, the      *)
(* column list and field_name are empty.                                   *)
C2_ColumnsAndFieldCleared ==
  (untouched /\ selectedDatabase # "" /\ Quiescent)
    => (columns = <<>> /\ formData.field_name = "")

(* C3: when the handling of a change of the table selection ends (the      *)
(* column fetch is answered, successfully or not, or the selection became  *)
(* empty and no fetch is made), field_name is empty.                       *)
C3_FieldCleared ==
  [][(\/ ColumnFetchSucceeded
      \/ ColumnFetchFailed
      \/ (selectedTable' # selectedTable /\ selectedTable' = ""))
     => formData'.field_name = ""]_vars

(* C4: at every submit, field_name is a column of the selected table of    *)
(* the selected database (stated for the submits made while a database is  *)
(* selected).                                                              *)
C4_FieldBelongsAtSubmit ==
  [][(handleSubmit /\ selectedDatabase # "")
     => formData.field_name \in Range(ColumnsOf(selectedDatabase, selectedTable))]_vars

(* C5: a submit whose POST succeeds sets the success message, calls        *)
(* refreshAlerts once and resets the draft to all-empty; no other step     *)
(* calls refreshAlerts.                                                    *)
C5_SuccessfulSubmit ==
  [][IF PostSucceeded
       THEN success' = MsgSuccess /\ refreshCalls' = 1 /\ formData' = EmptyForm
       ELSE refreshCalls' = 0]_vars

(* C6, as claimed: a change of selectedTable to a non-empty value issues   *)
(* exactly one column fetch for (selectedDatabase, that table), and no     *)
(* other step issues a column fetch.                                       *)
C6_OnlyTableChangeFetchesColumns ==
  [][IF selectedTable' # selectedTable /\ selectedTable' # ""
       THEN colReqs' = colReqs (+)
              SetToBag({[database |-> selectedDatabase', table |-> selectedTable']})
       ELSE NoneIssued(colReqs, colReqs')]_vars

(* C6, amended: a change of selectedTable or of selectedDatabase that      *)
(* leaves a non-empty table selected issues exactly one column fetch for   *)
(* the new (selectedDatabase, selectedTable), and no other step issues a   *)
(* column fetch.                                                           *)
C6_ColumnFetchPerDependencyChange ==
  [][IF /\ (selectedTable' # selectedTable \/ selectedDatabase' # selectedDatabase)
        /\ selectedTable' # ""
       THEN colReqs' = colReqs (+)
              SetToBag({[database |-> selectedDatabase', table |-> selectedTable']})
       ELSE NoneIssued(colReqs, colReqs')]_vars

\* The database changed while a table was selected, and the column fetch for
\* the new database and that table is in flight.
C6_Witness ==
  /\ untouched
  /\ selectedTable # ""
  /\ BagIn([database |-> selectedDatabase, table |-> selectedTable], colReqs)

(* C7: a change of selectedDatabase to a non-empty value issues exactly    *)
(* one table fetch for the new value, and no other step issues a table     *)
(* fetch.                                                                  *)
C7_TableFetchPerDatabaseChange ==
  [][IF selectedDatabase' # selectedDatabase /\ selectedDatabase' # ""
       THEN tableReqs' = tableReqs (+) SetToBag({[database |-> selectedDatabase']})
       ELSE NoneIssued(tableReqs, tableReqs')]_vars

\* The database changed, the fetch for it is in flight once, and an earlier
\* fetch is in flight beside it.
C7_Witness ==
  /\ untouched
  /\ selectedDatabase # ""
  /\ CopiesIn([database |-> selectedDatabase], tableReqs) = 1
  /\ BagCardinality(tableReqs) = 2

C9_StaleResponsesApplied ==
  [][/\ \A r \in BagToSet(tableReqs) :
          (TablesResolved(r) /\ r.database # selectedDatabase)
            => (tables' = TablesOf(r.database) /\ selectedDatabase' = selectedDatabase)
     /\ \A r \in BagToSet(colReqs) :
          (ColumnsResolved(r) /\ (r.database # selectedDatabase \/ r.table # selectedTable))
            => /\ columns' = ColumnsOf(r.database, r.table)
               /\ selectedTable' = selectedTable
               /\ selectedDatabase' = selectedDatabase]_vars

\* Every request has been answered, none has failed and no submit was made
\* (both messages are empty), so the last request sent was answered before an
\* earlier one: tables is the list of d1 while d2 is selected, and columns is
\* the list of t1 while t2 is selected.
C9_Witness ==
  /\ Quiescent
  /\ error = ""
  /\ success = ""
  /\ selectedDatabase = "d2"
  /\ tables = TablesOf("d1")
  /\ selectedTable = "t2"
  /\ columns = ColumnsOf("d2", "t1")

(* C10: error is empty or one of the three fixed strings, and a step that  *)
(* changes it is the handling of the matching failure: a table fetch       *)
(* answered for 'Failed to fetch tables', a column fetch answered for      *)
(* 'Failed to fetch columns', a POST answered for 'Failed to add alert',   *)
(* a POST sent for the empty string.                                       *)
C10_ErrorStrings ==
  /\ error = ""
  /\ [][/\ error' \in {"", ErrTables, ErrColumns, ErrAlert}
        /\ error' # error =>
             /\ error' = ErrTables => OneAnswered(tableReqs, tableReqs')
             /\ error' = ErrColumns => OneAnswered(colReqs, colReqs')
             /\ error' = ErrAlert => OneAnswered(postReqs, postReqs')
             /\ error' = "" => OneAnswered(postReqs', postReqs)]_vars

\* A column fetch failed after a table fetch had failed.
C10_Witness ==
  /\ error = ErrColumns
  /\ untouched
  /\ tableReqs = EmptyBag
  /\ selectedTable # ""
  /\ selectedDatabase # ""

(* C11: a submit sends one POST that carries the draft and the database of *)
(* the moment handleSubmit is called, and clears error and success; no     *)
(* other step sends a POST or alters one in flight, whatever is edited or  *)
(* selected afterwards.                                                    *)
C11_PostCarriesDraftAtSubmit ==
  [][IF handleSubmit
       THEN /\ postReqs' = postReqs (+)
                 SetToBag({[database |-> selectedDatabase, body |-> formData]})
            /\ error' = ""
            /\ success' = ""
       ELSE NoneIssued(postReqs, postReqs')]_vars

\* A POST is in flight while the draft has been edited and the database
\* changed since it was sent: the request still carries the complete draft
\* and the database of the submit.
C11_Witness ==
  \E r \in BagToSet(postReqs) :
    /\ r.body # formData
    /\ r.database # selectedDatabase
    /\ r.body.alert_title # "" /\ r.body.field_name # ""
    /\ formData.alert_title = ""

PostHasFailed == \E r \in BagToSet(postReqs) : PostFailed(r)

(* C12: the handling of a failed POST sets error to 'Failed to add alert', *)
(* leaves formData, tables, columns, selectedTable and success as they     *)
(* were, and does not call refreshAlerts.                                  *)
C12_FailedPostFrame ==
  [][PostHasFailed
     => /\ error' = ErrAlert
        /\ formData' = formData
        /\ tables' = tables
        /\ columns' = columns
        /\ selectedTable' = selectedTable
        /\ success' = success
        /\ refreshCalls' = 0]_vars

\* The last submit has failed (error is its message and success is still
\* empty, so no POST was fulfilled since): the complete draft is still there.
C12_Witness ==
  /\ error = ErrAlert
  /\ success = ""
  /\ postReqs = EmptyBag
  /\ refreshCalls = 0
  /\ FormValid

BothMessages == error # "" /\ success # ""

(* C13 (as stated): error and success are never both non-empty.  Checked   *)
(* on the states whose error is the message of a failed fetch: while one   *)
(* of the two fetch messages is shown, success is empty.                   *)
C13_NeverBothMessages ==
  error \in {ErrTables, ErrColumns} => success = ""

(* C13 (amended): handleSubmit leaves both messages empty; afterwards each *)
(* is set on its own, so both can be shown at once, and a step into such a *)
(* state is the handling of a response: a fulfilled POST, or a failed      *)
(* table fetch, column fetch or POST.                                      *)
C13_BothMessagesOnlyByResponse ==
  [][/\ handleSubmit => (error' = "" /\ success' = "")
     /\ (BothMessages' /\ ~BothMessages)
          => (PostSucceeded \/ TableFetchFailed \/ ColumnFetchFailed \/ PostHasFailed)]_vars

\* The success message of a fulfilled POST and the message of a later
\* failed table fetch are shown together, nothing is in flight and the
\* draft is the reset one (so refreshAlerts returned).
C13_Witness ==
  /\ error = ErrTables
  /\ success = MsgSuccess
  /\ formData = EmptyForm
  /\ Quiescent

(* C14: selectedTable is empty or a member of tables, and                  *)
(* formData.field_name is empty or a member of columns, in every reachable *)
(* state.                                                                  *)
C14_SelectionsAreOptions ==
  /\ selectedTable \in Range(tables) \cup {""}
  /\ formData.field_name \in Range(columns) \cup {""}

\* After a database change replaced the table list and a fulfilled submit
\* reset the draft, a table and a field are selected again from the lists
\* now held.
C14_Witness ==
  /\ selectedDatabase = "d2"
  /\ tables = TablesOf("d2")
  /\ selectedTable = "t1"
  /\ columns = ColumnsOf("d2", "t1")
  /\ formData.field_name = "c1"
  /\ success = MsgSuccess
  /\ Quiescent

(* C15: the handling of a fulfilled POST sets success to 'Alert added      *)
(* successfully', resets the draft to all-empty and does not set error,    *)
(* whether refreshAlerts returns or throws.                                *)
C15_FulfilledPostNeverFails ==
  [][PostSucceeded
     => /\ success' = MsgSuccess
        /\ error' = error
        /\ formData' = EmptyForm]_vars

Requests == BagToSet(tableReqs) \cup BagToSet(colReqs) \cup BagToSet(postReqs)

(* C16: every table fetch, column fetch and POST in flight carries a       *)
(* non-empty database.                                                     *)
C16_NoRequestWithEmptyDatabase ==
  \A r \in Requests : r.database # ""

(* C17: a step that empties a non-empty error is a call of handleSubmit,   *)
(* and every call of handleSubmit leaves error empty; so an error stays    *)
(* through database changes, table changes, edits and answered fetches     *)
(* until the next submit.                                                  *)
C17_ErrorClearedOnlyBySubmit ==
  [][/\ (error # "" /\ error' = "") => handleSubmit
     /\ handleSubmit => error' = ""]_vars

\* The message of a failed table fetch is still shown after the table list
\* of the current database arrived, a table and a field were chosen and the
\* title was typed.
C17_Witness ==
  /\ error = ErrTables
  /\ selectedDatabase = "d2"
  /\ tables = TablesOf("d2")
  /\ selectedTable = "t1"
  /\ columns = ColumnsOf("d2", "t1")
  /\ formData.field_name = "c1"
  /\ formData.alert_title = "High"
  /\ Quiescent

====
